---------------------------- MODULE Spec2Model ----------------------------
(***************************************************************************)
(* Model of src/src/uboot_env_unprotect.c (libubootenv): the probe of the  *)
(* mmcblk boot partition write protection and the unprotect / reprotect    *)
(* operations on the force_ro control file.                                *)
(*                                                                         *)
(* Characters are ASCII codes, C strings are sequences of non-NUL codes    *)
(* (the terminating NUL is implicit at index Len).  The control file is a  *)
(* one byte register, as sysfs presents force_ro to read(2) and write(2).  *)
(***************************************************************************)
EXTENDS Integers, Sequences, FiniteSets, TLC

(***************************************************************************)
(* Bounds of the model.                                                    *)
(***************************************************************************)
\* longest tail appended to a generated candidate device path
MaxExtra == 1

\* longest run of consecutive env_unprotect calls that is counted; a longer
\* run is counted as one of this length
MaxRun == 3

(***************************************************************************)
(* Program constants.                                                      *)
(***************************************************************************)
SYSFS_PATH_MAX == 120
ENOMEM == 12
c_unprot_char == 48
c_prot_char == 49
c_sys_path_1 == <<47, 115, 121, 115, 47, 99, 108, 97, 115, 115, 47, 98, 108, 111, 99, 107, 47>>
c_sys_path_2 == <<47, 102, 111, 114, 99, 101, 95, 114, 111>>
c_dev_name_1 == <<109, 109, 99, 98, 108, 107>>
c_dev_name_2 == <<98, 111, 111, 116>>
\* the literal "/dev/" of line 104
c_dev_prefix == <<47, 100, 101, 118, 47>>

NULL == "NULL"
\* marks "no byte" in the records of the calls; no value of a char read or written
NoByte == 0 - 1

\* sizeof of a char array initialised from a string literal: the NUL counts
SizeOf(str) == Len(str) + 1

(***************************************************************************)
(* C strings and strncmp.  A pointer is a string and an offset into it.    *)
(* Index Len(s) holds the NUL; what lies behind the NUL is not part of the *)
(* object: a read there yields whatever the memory holds (g).              *)
(***************************************************************************)
Ptr(s, off) == [s |-> s, off |-> off]

Mem(p, i, g) ==
    LET k == p.off + i
    IN  IF k < Len(p.s) THEN p.s[k + 1]
        ELSE IF k = Len(p.s) THEN 0
        ELSE g[((k - Len(p.s) - 1) % Len(g)) + 1]

RECURSIVE strncmp_from(_, _, _, _, _)
strncmp_from(p, q, n, i, g) ==
    IF i = n THEN 0
    ELSE LET a == Mem(p, i, g)
             b == Mem(q, i, g)
         IN  IF a # b THEN a - b
             ELSE IF a = 0 THEN 0
             ELSE strncmp_from(p, q, n, i + 1, g)

strncmp(p, q, n, g) == strncmp_from(p, q, n, 0, g)

\* number of characters strncmp reads from each argument
RECURSIVE strncmp_reads(_, _, _, _, _)
strncmp_reads(p, q, n, i, g) ==
    IF i = n THEN n
    ELSE LET a == Mem(p, i, g)
             b == Mem(q, i, g)
         IN  IF a # b \/ a = 0 THEN i + 1
             ELSE strncmp_reads(p, q, n, i + 1, g)

strncmp_count(p, q, n, g) == strncmp_reads(p, q, n, 0, g)

\* the highest index of p.s a read of `cnt` characters through p touches
LastIndex(p, cnt) == p.off + cnt - 1

\* a read through p of cnt characters goes past the terminating NUL
PastNul(p, cnt) == cnt > 0 /\ LastIndex(p, cnt) > Len(p.s)


(***************************************************************************)
(* State.                                                                  *)
(***************************************************************************)
VARIABLES
    fs,       \* the control files: path |-> [mode, byte]
    devname,  \* the device path the caller has configured for each slot
    obj,      \* *pp_obj of each slot: NULL or the env_protect_mmcblkboot_t
    io,       \* what the most recent call did (system calls, result)
    hist      \* per observed slot: facts about the earlier calls on its Protector

vars == <<fs, devname, obj, io, hist>>

\* the caller's env_protect_t* variables, and those whose history is recorded
Slots == DOMAIN obj
Observed == DOMAIN hist

Modes == {"absent", "ro", "wo", "rw"}
\* control file bytes: NUL, '0', '1' and '2'
Bytes == {0, c_unprot_char, c_prot_char, 50}

(***************************************************************************)
(* The system calls on the control file.                                   *)
(***************************************************************************)
\* faulty variant: the probe tests for existence (F_OK) instead of writability
access_F_OK(path) == path \in DOMAIN fs /\ fs[path].mode # "absent"

\* access(path, W_OK) == 0
access_W_OK(path) == path \in DOMAIN fs /\ fs[path].mode \in {"wo", "rw"}

\* open(path, O_RDWR) can succeed
may_open_RDWR(path) == path \in DOMAIN fs /\ fs[path].mode = "rw"

\* open(path, O_WRONLY) can succeed
may_open_WRONLY(path) == path \in DOMAIN fs /\ fs[path].mode \in {"wo", "rw"}

(***************************************************************************)
(* mmcblkboot_create: the matcher, step by step.                           *)
(***************************************************************************)
\* line 104: strncmp("/dev/", devname, 5) == 0
HasDevPrefix(name, g) == strncmp(Ptr(c_dev_prefix, 0), Ptr(name, 0), 5, g) = 0

\* line 105: devfile = devname + 5
DevFile(name) == Ptr(name, 5)

\* line 110: strncmp(devfile, c_dev_name_1, sizeof(c_dev_name_1) - 1)
HasFamily(devfile, g) ==
    strncmp(devfile, Ptr(c_dev_name_1, 0), SizeOf(c_dev_name_1) - 1, g) = 0

\* line 115: the class token is compared at devfile + sizeof(c_dev_name_1)
ClassPtr(devfile) == Ptr(devfile.s, devfile.off + SizeOf(c_dev_name_1))

HasClass(devfile, g) ==
    strncmp(ClassPtr(devfile), Ptr(c_dev_name_2, 0), SizeOf(c_dev_name_2) - 1, g) = 0

IsDigit(c) == ~(c < 48 \/ c > 57)

\* lines 119-120: *(devfile + sizeof(c_dev_name_1) - 1)
HasCtrlDigit(devfile, g) == IsDigit(Mem(devfile, SizeOf(c_dev_name_1) - 1, g))

\* lines 124-125: *(devfile + sizeof(c_dev_name_1) + sizeof(c_dev_name_2) - 1)
HasPartDigit(devfile, g) ==
    IsDigit(Mem(devfile, SizeOf(c_dev_name_1) + SizeOf(c_dev_name_2) - 1, g))

\* lines 104-127: the path passes every test of the matcher
Matches(name, g) ==
    /\ HasDevPrefix(name, g)
    /\ HasFamily(DevFile(name), g)
    /\ HasClass(DevFile(name), g)
    /\ HasCtrlDigit(DevFile(name), g)
    /\ HasPartDigit(DevFile(name), g)

\* the matcher reads a character behind the terminating NUL of devname
MatcherReadsPastNul(name, g) ==
    LET df == DevFile(name)
        n1 == strncmp_count(Ptr(c_dev_prefix, 0), Ptr(name, 0), 5, g)
        n2 == strncmp_count(df, Ptr(c_dev_name_1, 0), SizeOf(c_dev_name_1) - 1, g)
        n3 == strncmp_count(ClassPtr(df), Ptr(c_dev_name_2, 0), SizeOf(c_dev_name_2) - 1, g)
    IN  \/ PastNul(Ptr(name, 0), n1)
        \/ /\ HasDevPrefix(name, g)
           /\ \/ PastNul(df, n2)
              \/ /\ HasFamily(df, g)
                 /\ \/ PastNul(ClassPtr(df), n3)
                    \/ /\ HasClass(df, g)
                       /\ \/ PastNul(df, SizeOf(c_dev_name_1))
                          \/ /\ HasCtrlDigit(df, g)
                             /\ PastNul(df, SizeOf(c_dev_name_1) + SizeOf(c_dev_name_2))

\* the string a "%s" conversion prints for a pointer: up to the NUL
CStr(p) == SubSeq(p.s, p.off + 1, Len(p.s))

Truncate(str, n) == IF Len(str) > n THEN SubSeq(str, 1, n) ELSE str

\* faulty variant: the path is built in one place for one fixed device
snprintf_sysfs_path_fixed(devfile) ==
    c_sys_path_1 \o c_dev_name_1 \o <<48>> \o c_dev_name_2 \o <<48>> \o c_sys_path_2

\* line 133: snprintf(p_obj->sysfs_path, SYSFS_PATH_MAX, "%s%s%s", ...)
snprintf_sysfs_path(devfile) ==
    Truncate(c_sys_path_1 \o CStr(devfile) \o c_sys_path_2, SYSFS_PATH_MAX - 1)

\* a slot that points to no object (addr 0 is the null pointer)
NullObj ==
    [addr |-> 0, unprotect |-> NULL, reprotect |-> NULL, sysfs_path |-> <<>>,
     current_prot |-> 0]

IsNull(o) == o.addr = 0

\* faulty variant: the object comes from malloc and current_prot holds what was there
malloc_obj == [NullObj EXCEPT !.addr = 1, !.current_prot = c_prot_char]

\* line 129: calloc(1, sizeof(env_protect_mmcblkboot_t)) zeroes every field
calloc_obj == [NullObj EXCEPT !.addr = 1]

\* faulty variant: the reprotect operation is not set
created_obj_half(devfile) ==
    [calloc_obj EXCEPT !.sysfs_path = snprintf_sysfs_path(devfile),
                       !.unprotect = "mmcblkboot_unprotect"]

\* lines 133-141: the object as mmcblkboot_create fills it
created_obj(devfile) ==
    [calloc_obj EXCEPT !.sysfs_path = snprintf_sysfs_path(devfile),
                       !.unprotect = "mmcblkboot_unprotect",
                       !.reprotect = "mmcblkboot_reprotect"]

\* lines 99-145: the return value, the object stored through pp_obj (NullObj:
\* none stored) and the calls made
mmcblkboot_create(name, allocOK, g) ==
    LET devfile == DevFile(name)
        none(r, t) == [ret |-> r, p_obj |-> NullObj, trace |-> t]
    IN  IF ~HasDevPrefix(name, g) THEN none(0, <<>>)
        ELSE IF ~HasFamily(devfile, g) THEN none(0, <<>>)
        ELSE IF ~HasClass(devfile, g) THEN none(0, <<>>)
        ELSE IF ~HasCtrlDigit(devfile, g) THEN none(0, <<>>)
        ELSE IF ~HasPartDigit(devfile, g) THEN none(0, <<>>)
        ELSE IF ~allocOK THEN none(-ENOMEM, <<"calloc">>)
        ELSE IF ~access_W_OK(snprintf_sysfs_path(devfile))
             THEN none(0, <<"calloc", "access", "free">>)
        ELSE [ret |-> 1, p_obj |-> created_obj(devfile),
              trace |-> <<"calloc", "access">>]

(***************************************************************************)
(* Records of the calls (history variables io and hist).                   *)
(***************************************************************************)
\* io: op and slot name the call; ret is the value returned by the probe;
\* trace lists the library and system calls made, in order; rd is the byte
\* read(2) delivered, wr the byte handed to write(2); fail holds when one of
\* the calls of the trace failed; opened tells whether open(2) gave a file
\* descriptor; pre is the control byte before the call;
\* mem tells whether the allocator had memory; oob tells whether the matcher
\* read behind the NUL of devname.
NoIo ==
    [op |-> "none", slot |-> 0, ret |-> 0, trace |-> <<>>, rd |-> NoByte,
     wr |-> NoByte, fail |-> FALSE, opened |-> FALSE, pre |-> NoByte,
     mem |-> TRUE, oob |-> FALSE]

\* hist[s], about the Protector of slot s since its probe:
\* u - how the most recent env_unprotect went: "never" (none yet), "noopen"
\*     (open failed), "badread" (read failed or gave no sentinel), "nowrite"
\*     (sentinel read, write failed), "done" (sentinel read, '0' written);
\* pre - the control byte right before the most recent env_unprotect;
\* seen1 - some env_unprotect read '1' from the control file;
\* ext - changes of the file from outside: "no" (none), "before" (the last
\*     one before the most recent env_unprotect), "since" (one after it);
\* run - the number of env_unprotect calls, each without a failed system
\*     call, that ended with the most recent one and had no other call or
\*     change on the way (0: the most recent one had a failure, or the file
\*     was changed from outside afterwards);
\* first - the control byte right before the first call of that run.
NoHist ==
    [u |-> "never", pre |-> NoByte, seen1 |-> FALSE, ext |-> "no",
     run |-> 0, first |-> NoByte]

Count(trace, call) == Cardinality({i \in DOMAIN trace : trace[i] = call})

ByteOf(path) == IF path \in DOMAIN fs THEN fs[path].byte ELSE NoByte

(***************************************************************************)
(* env_protect_probe.                                                      *)
(***************************************************************************)
\* faulty variant: the probe tries the control file out by unprotecting it
env_protect_probe_touch(s, allocOK, g) ==
    LET r == mmcblkboot_create(devname[s], allocOK, g)
    IN  /\ obj' = IF ~IsNull(r.p_obj) THEN [obj EXCEPT ![s] = r.p_obj] ELSE obj
        /\ hist' = IF ~IsNull(r.p_obj) /\ s \in Observed
                   THEN [hist EXCEPT ![s] = NoHist] ELSE hist
        /\ io' = [NoIo EXCEPT !.op = "probe", !.slot = s, !.ret = r.ret,
                              !.trace = r.trace, !.mem = allocOK]
        /\ fs' = IF ~IsNull(r.p_obj)
                 THEN [fs EXCEPT ![r.p_obj.sysfs_path].byte = c_unprot_char] ELSE fs
        /\ UNCHANGED devname

\* lines 149-153 with lines 143-144: *pp_obj is assigned only on success
env_protect_probe(s, allocOK, g) ==
    LET r == mmcblkboot_create(devname[s], allocOK, g)
    IN  /\ obj' = IF ~IsNull(r.p_obj) THEN [obj EXCEPT ![s] = r.p_obj] ELSE obj
        /\ hist' = IF ~IsNull(r.p_obj) /\ s \in Observed
                   THEN [hist EXCEPT ![s] = NoHist] ELSE hist
        /\ io' = [NoIo EXCEPT !.op = "probe", !.slot = s, !.ret = r.ret,
                              !.trace = r.trace,
                              !.fail = (Count(r.trace, "calloc") > 0 /\ ~allocOK),
                              !.mem = allocOK,
                              !.oob = MatcherReadsPastNul(devname[s], g)]
        /\ UNCHANGED <<fs, devname>>

(***************************************************************************)
(* mmcblkboot_unprotect.                                                   *)
(***************************************************************************)
\* faulty variant: every byte that was read counts as a valid state
UnprotectValid_anybyte(n, c) == n = 1

\* line 68: the condition under which the state is kept and '0' is written
UnprotectValid(n, c) == n = 1 /\ (c = c_unprot_char \/ c = c_prot_char)

\* lines 61-64: what an open that fails leaves in current_prot
ProtAfterFailedOpen(p) == p.current_prot

\* faulty variant: whatever byte was read is archived
ProtAfterRead_keep(n, c) == IF n = 1 THEN c ELSE 0

\* faulty variant: an unreadable state is taken for "protected"
ProtAfterRead_assume(n, c) == IF n = 1 /\ c \in {c_unprot_char, c_prot_char} THEN c ELSE c_prot_char

\* lines 67-72: current_prot after the read; n is the result of read(2) and
\* c the byte the buffer then holds
ProtAfterRead(n, c) == IF UnprotectValid(n, c) THEN c ELSE 0

\* faulty variant: an open that fails is tried once more
UnprotectTrace_retry(opened, valid) ==
    IF ~opened THEN <<"open", "open">>
    ELSE IF valid THEN <<"open", "read", "write", "close">>
    ELSE <<"open", "read", "close">>

\* faulty variant: the branch that marks the state unknown returns at once
UnprotectTrace_leak(opened, valid) ==
    IF ~opened THEN <<"open">>
    ELSE IF valid THEN <<"open", "read", "write", "close">>
    ELSE <<"open", "read">>

\* lines 61-73: the calls mmcblkboot_unprotect makes, in order; opened tells
\* whether open succeeded, valid whether line 68 held
UnprotectTrace(opened, valid) ==
    IF ~opened THEN <<"open">>
    ELSE IF valid THEN <<"open", "read", "write", "close">>
    ELSE <<"open", "read", "close">>

\* lines 54-74
mmcblkboot_unprotect(s, openOK, n, writeOK, closeOK) ==
    LET p == obj[s]
        path == p.sysfs_path
        pre == ByteOf(path)
        opened == openOK /\ may_open_RDWR(path)
        c == IF n = 1 THEN pre ELSE p.current_prot
        valid == UnprotectValid(n, c)
        wrote == opened /\ valid /\ writeOK
        failed == ~opened \/ n # 1 \/ (valid /\ ~writeOK) \/ ~closeOK
        cont == /\ s \in Observed /\ hist[s].run > 0
                /\ io.op = "unprotect" /\ io.slot = s /\ ~io.fail
    IN  /\ obj' = [obj EXCEPT ![s].current_prot =
                      IF opened THEN ProtAfterRead(n, c) ELSE ProtAfterFailedOpen(p)]
        /\ fs' = IF wrote THEN [fs EXCEPT ![path].byte = c_unprot_char] ELSE fs
        /\ io' = [NoIo EXCEPT !.op = "unprotect", !.slot = s,
                     !.trace = UnprotectTrace(opened, valid),
                     !.opened = opened,
                     !.rd = IF opened /\ n = 1 THEN pre ELSE NoByte,
                     !.wr = IF opened /\ valid THEN c_unprot_char ELSE NoByte,
                     !.fail = failed, !.pre = pre]
        /\ hist' = IF s \in Observed
                   THEN [hist EXCEPT ![s] =
                          [u |-> IF ~opened THEN "noopen"
                                 ELSE IF ~valid THEN "badread"
                                 ELSE IF ~writeOK THEN "nowrite" ELSE "done",
                           pre |-> pre,
                           seen1 |-> hist[s].seen1
                                       \/ (opened /\ n = 1 /\ pre = c_prot_char),
                           ext |-> IF hist[s].ext = "no" THEN "no" ELSE "before",
                           run |-> IF failed THEN 0
                                   ELSE IF ~cont THEN 1
                                   ELSE IF hist[s].run < MaxRun THEN hist[s].run + 1
                                   ELSE MaxRun,
                           first |-> IF failed THEN NoByte
                                     ELSE IF cont THEN hist[s].first ELSE pre]]
                   ELSE hist
        /\ UNCHANGED devname

\* lines 155-159
env_unprotect(s, openOK, n, writeOK, closeOK) ==
    /\ ~IsNull(obj[s])
    /\ IF obj[s].unprotect # NULL
       THEN mmcblkboot_unprotect(s, openOK, n, writeOK, closeOK)
       ELSE /\ io' = [NoIo EXCEPT !.op = "unprotect", !.slot = s]
            /\ UNCHANGED <<fs, devname, obj, hist>>

(***************************************************************************)
(* mmcblkboot_reprotect.                                                   *)
(***************************************************************************)
\* faulty variant: reprotect never restores
ReprotectGuard_never(prot) == FALSE

\* line 81: the archived state under which reprotect restores
ReprotectGuard(prot) == prot # 0

\* faulty variant: reprotect always writes the "protected" byte
ReprotectByte_protect(p) == c_prot_char

\* line 87: the byte handed to write(2)
ReprotectByte(p) == p.current_prot

\* faulty variant: the archived state is cleared once it has been restored
ProtAfterReprotect_clear(p) == 0

\* lines 77-90: mmcblkboot_reprotect assigns nothing to current_prot
ProtAfterReprotect(p) == p.current_prot

\* lines 81-89: the calls mmcblkboot_reprotect makes, in order; try tells
\* whether line 81 held, opened whether open succeeded
ReprotectTrace(try, opened) ==
    IF ~try THEN <<>>
    ELSE IF ~opened THEN <<"open">>
    ELSE <<"open", "write", "close">>

\* lines 77-90
mmcblkboot_reprotect(s, openOK, writeOK, closeOK) ==
    LET p == obj[s]
        path == p.sysfs_path
        try == ReprotectGuard(p.current_prot)
        opened == try /\ openOK /\ may_open_WRONLY(path)
        wrote == opened /\ writeOK
    IN  /\ fs' = IF wrote THEN [fs EXCEPT ![path].byte = ReprotectByte(p)] ELSE fs
        /\ io' = [NoIo EXCEPT !.op = "reprotect", !.slot = s,
                     !.trace = ReprotectTrace(try, opened),
                     !.opened = opened,
                     !.wr = IF opened THEN ReprotectByte(p) ELSE NoByte,
                     !.fail = try /\ (~wrote \/ ~closeOK), !.pre = ByteOf(path)]
        /\ obj' = [obj EXCEPT ![s].current_prot = ProtAfterReprotect(p)]
        /\ UNCHANGED <<devname, hist>>

\* lines 161-165
env_reprotect(s, openOK, writeOK, closeOK) ==
    /\ ~IsNull(obj[s])
    /\ IF obj[s].reprotect # NULL
       THEN mmcblkboot_reprotect(s, openOK, writeOK, closeOK)
       ELSE /\ io' = [NoIo EXCEPT !.op = "reprotect", !.slot = s]
            /\ UNCHANGED <<fs, devname, obj, hist>>

(***************************************************************************)
(* The platform: something else rewrites a control file.                   *)
(***************************************************************************)
ExternalChange(path, b) ==
    /\ fs[path].mode # "absent"
    /\ fs[path].byte # b
    /\ fs' = [fs EXCEPT ![path].byte = b]
    /\ hist' = [s \in Observed |->
                  IF ~IsNull(obj[s]) /\ obj[s].sysfs_path = path
                  THEN [hist[s] EXCEPT !.ext = "since", !.run = 0, !.first = NoByte]
                  ELSE hist[s]]
    /\ io' = [NoIo EXCEPT !.op = "external"]
    /\ UNCHANGED <<devname, obj>>

(***************************************************************************)
(* Inputs.                                                                 *)
(***************************************************************************)
Sentinels == {c_unprot_char, c_prot_char}

\* results of read(fd, buf, 1): error, end of file, one byte
ReadResults == {-1, 0, 1}

\* what the memory behind the NUL of devname may hold: "boot0", "\0..."
Garbage == {c_dev_name_2 \o <<48>>, <<0, 0, 0, 0, 0>>, <<98, 111, 120, 0, 49>>}

\* "/dev/mmcblk0boot0" and "/dev/mmcblk1boot1"
DevA == c_dev_prefix \o c_dev_name_1 \o <<48>> \o c_dev_name_2 \o <<48>>
DevB == c_dev_prefix \o c_dev_name_1 \o <<49>> \o c_dev_name_2 \o <<49>>

\* the control file a device path names
ControlFile(name) == c_sys_path_1 \o CStr(Ptr(name, 5)) \o c_sys_path_2

(***************************************************************************)
(* The actions, with their inputs drawn from small sets.                   *)
(***************************************************************************)
Probe == \E s \in Slots, allocOK \in BOOLEAN, g \in Garbage :
            env_protect_probe(s, allocOK, g)

Unprotect == \E s \in Slots, openOK \in BOOLEAN, n \in ReadResults,
                writeOK \in BOOLEAN, closeOK \in BOOLEAN :
                env_unprotect(s, openOK, n, writeOK, closeOK)

Reprotect == \E s \in Slots, openOK \in BOOLEAN, writeOK \in BOOLEAN, closeOK \in BOOLEAN :
                env_reprotect(s, openOK, writeOK, closeOK)

External == \E path \in DOMAIN fs, b \in Bytes : ExternalChange(path, b)

(***************************************************************************)
(* Spec: the life of one Protector, on a control file of every mode and    *)
(* content, with failing system calls and changes from outside.            *)
(***************************************************************************)
Init ==
    /\ devname = [s \in {1} |-> DevA]
    /\ fs \in [{ControlFile(DevA)} -> [mode : Modes, byte : Bytes]]
    /\ obj = [s \in {1} |-> NullObj]
    /\ io = NoIo
    /\ hist = [s \in {1} |-> NoHist]

Next == Probe \/ Unprotect \/ Reprotect \/ External

Spec == Init /\ [][Next]_vars

(***************************************************************************)
(* SpecPair: two Protectors, probed from two different device paths.       *)
(***************************************************************************)
InitPair ==
    /\ devname = <<DevA, DevB>>
    /\ fs \in [{ControlFile(DevA), ControlFile(DevB)} -> [mode : Modes, byte : Bytes]]
    /\ obj = <<NullObj, NullObj>>
    /\ io = NoIo
    /\ hist = << >>

SpecPair == InitPair /\ [][Next]_vars

(***************************************************************************)
(* SpecProbe: env_protect_probe on device paths of every shape.  The       *)
(* candidates are the pattern with each token and each index character     *)
(* varied, with extra characters after either index, every prefix of a     *)
(* valid path, and a path too long for sysfs_path.  The file system holds   *)
(* the control file the candidate names, in every mode.                    *)
(***************************************************************************)
\* '/', '0', '9', ':' : the digits' ends and their neighbours
EdgeChars == {47, 48, 57, 58}
\* '0' and 'p'
TailChars == {48, 112}

RECURSIVE SeqsUpTo(_, _)
SeqsUpTo(chars, n) ==
    IF n = 0 THEN {<<>>}
    ELSE LET shorter == SeqsUpTo(chars, n - 1)
         IN  shorter \cup {s \o <<c>> : s \in shorter, c \in chars}

\* "/tmp/", "sdcblk", "root"
OtherPrefix == <<47, 116, 109, 112, 47>>
OtherFamily == <<115, 100, 99, 98, 108, 107>>
OtherClass == <<114, 111, 111, 116>>

Shaped ==
    {pre \o fam \o <<c1>> \o mid \o cls \o <<c2>> \o tl :
        pre \in {c_dev_prefix, OtherPrefix}, fam \in {c_dev_name_1, OtherFamily},
        c1 \in EdgeChars, mid \in SeqsUpTo({48}, MaxExtra),
        cls \in {c_dev_name_2, OtherClass}, c2 \in EdgeChars,
        tl \in SeqsUpTo(TailChars, MaxExtra)}

Prefixes(str) == {SubSeq(str, 1, k) : k \in 0..Len(str)}

\* a valid path followed by SYSFS_PATH_MAX times 'x'
LongPath == DevA \o [i \in 1..SYSFS_PATH_MAX |-> 120]

ProbePaths == Shaped \cup Prefixes(DevA) \cup {LongPath}

InitProbe ==
    /\ \E name \in ProbePaths :
          /\ devname = <<name>>
          /\ \E f \in {ControlFile(name), Truncate(ControlFile(name), SYSFS_PATH_MAX - 1)} :
                fs \in [{f} -> [mode : Modes, byte : Sentinels]]
    /\ obj = <<NullObj>>
    /\ io = NoIo
    /\ hist = <<NoHist>>

NextProbe == Probe

SpecProbe == InitProbe /\ [][NextProbe]_vars

(***************************************************************************)
(* Properties of unprotect and reprotect, checked under Spec.  A property  *)
(* of a call is stated of the state the call returns in: io describes that *)
(* call, hist the calls before it.                                         *)
(***************************************************************************)
\* the control byte of the Protector of slot s
CtlByte(s) == ByteOf(obj[s].sysfs_path)

AfterUnprotect == io.op = "unprotect" /\ io.slot \in Observed
AfterReprotect == io.op = "reprotect" /\ io.slot \in Observed

\* C1: round trip.  An env_unprotect without I/O failure on a control file
\* holding b in {'0','1'} leaves the control byte '0' and the archived state
\* b; an env_reprotect without I/O failure that follows such an env_unprotect
\* leaves the control byte equal to b.
C1_RoundTrip ==
    /\ (AfterUnprotect /\ ~io.fail /\ io.pre \in Sentinels)
          => /\ CtlByte(io.slot) = c_unprot_char
             /\ obj[io.slot].current_prot = io.pre
    /\ (AfterReprotect /\ ~io.fail /\ hist[io.slot].u = "done"
                       /\ hist[io.slot].pre \in Sentinels)
          => CtlByte(io.slot) = hist[io.slot].pre

\* a reprotect has restored '1' after an unprotect that lowered it to '0'
C1_Witness ==
    /\ AfterReprotect /\ ~io.fail
    /\ hist[io.slot].u = "done" /\ hist[io.slot].pre = c_prot_char
    /\ hist[io.slot].ext = "no"
    /\ io.pre = c_unprot_char
    /\ CtlByte(io.slot) = c_prot_char

\* C2: protection is never forced on.  env_reprotect hands '1' to write(2)
\* only if an earlier env_unprotect on the Protector read '1' from the
\* control file, whatever failed in between.
C2_NeverForcedOn ==
    (AfterReprotect /\ io.wr = c_prot_char) => hist[io.slot].seen1

\* a reprotect wrote '1' after a later unprotect had failed to open the file
C2_Witness ==
    /\ AfterReprotect /\ io.wr = c_prot_char
    /\ hist[io.slot].u = "noopen"
    /\ hist[io.slot].seen1

\* C3 as claimed: if the control byte was not '1' right before the most
\* recent env_unprotect (and nothing changed the file from outside), the next
\* env_reprotect does not write '1'.
C3_NoProtectIfUnprotectedBefore ==
    (AfterReprotect /\ hist[io.slot].u # "never" /\ hist[io.slot].ext = "no"
                    /\ hist[io.slot].pre # c_prot_char)
        => io.wr # c_prot_char

\* C4: indeterminate state.  An env_unprotect that opens the file and whose
\* read fails, returns no byte or returns no sentinel writes nothing and sets
\* the archived state to 0, whatever was archived before; an env_reprotect
\* after it makes no call at all, and the control file is as it was before
\* the env_unprotect.
C4_Indeterminate ==
    /\ (AfterUnprotect /\ Count(io.trace, "read") = 1 /\ io.rd \notin Sentinels)
          => /\ Count(io.trace, "write") = 0
             /\ io.wr = NoByte
             /\ obj[io.slot].current_prot = 0
             /\ CtlByte(io.slot) = io.pre
    /\ (AfterReprotect /\ hist[io.slot].u = "badread")
          => /\ io.trace = <<>>
             /\ io.wr = NoByte
             /\ (hist[io.slot].ext # "since" => CtlByte(io.slot) = hist[io.slot].pre)

\* a reprotect did nothing although an earlier unprotect had archived '1':
\* the most recent unprotect could not read the still protected file
C4_Witness ==
    /\ AfterReprotect /\ hist[io.slot].u = "badread"
    /\ hist[io.slot].seen1
    /\ hist[io.slot].ext = "no"
    /\ CtlByte(io.slot) = c_prot_char

\* C5 as claimed: after an env_unprotect that failed to open the control file,
\* the next env_reprotect is a no-op, whatever the calls before.
C5_NoOpAfterFailedOpen ==
    (AfterReprotect /\ hist[io.slot].u = "noopen" /\ hist[io.slot].ext = "no")
        => (io.trace = <<>> /\ io.wr = NoByte)

\* C6: env_reprotect on a Protector on which env_unprotect was never called
\* makes no call (no open, no write) and leaves the control file as it is.
C6_ReprotectFresh ==
    (AfterReprotect /\ hist[io.slot].u = "never")
        => /\ io.trace = <<>>
           /\ io.wr = NoByte
           /\ CtlByte(io.slot) = io.pre

\* a reprotect on a fresh Protector of a protected, writable device
C6_Witness ==
    /\ AfterReprotect /\ hist[io.slot].u = "never"
    /\ CtlByte(io.slot) = c_prot_char
    /\ access_W_OK(obj[io.slot].sysfs_path)

(***************************************************************************)
(* Properties of the probe, checked under SpecProbe.                       *)
(***************************************************************************)
AfterProbe == io.op = "probe"

\* the pattern "/dev/mmcblk" digit "boot" digit, and nothing else
IsExactPattern(name) ==
    /\ Len(name) = 17
    /\ SubSeq(name, 1, 5) = c_dev_prefix
    /\ SubSeq(name, 6, 11) = c_dev_name_1
    /\ name[12] \in 48..57
    /\ SubSeq(name, 13, 16) = c_dev_name_2
    /\ name[17] \in 48..57

\* the control file at this path exists and is writable
FileWritable(path) == path \in DOMAIN fs /\ fs[path].mode \in {"wo", "rw"}

\* C7 as claimed: a device path that is not exactly the pattern is rejected
\* with 0 and no Protector is created, whatever files exist (stated for the
\* probes whose allocator has memory, so that no allocation failure is
\* counted against the claim).
C7_PatternRejection ==
    (AfterProbe /\ io.mem /\ ~IsExactPattern(devname[io.slot]))
        => (io.ret = 0 /\ IsNull(obj[io.slot]))

C9_ProbeOutcomes ==
    AfterProbe =>
        LET name == devname[io.slot]
            accepted == \E g \in Garbage : Matches(name, g)
            path == Truncate(ControlFile(name), SYSFS_PATH_MAX - 1)
        IN  /\ io.ret \in {1, 0, -ENOMEM}
            /\ io.ret = -ENOMEM => ~io.mem
            /\ io.ret = 1 <=> (accepted /\ io.mem /\ FileWritable(path))
            /\ io.ret = 1 =>
                  /\ ~IsNull(obj[io.slot])
                  /\ obj[io.slot].unprotect = "mmcblkboot_unprotect"
                  /\ obj[io.slot].reprotect = "mmcblkboot_reprotect"
                  /\ obj[io.slot].current_prot = 0

\* a successful probe of a valid path
C9_Witness ==
    /\ AfterProbe /\ io.ret = 1
    /\ IsExactPattern(devname[io.slot])
    /\ obj[io.slot].current_prot = 0

(***************************************************************************)
(* Properties of two Protectors, checked under SpecPair.                   *)
(***************************************************************************)
\* the step is a call of env_unprotect or env_reprotect on slot s
CallOn(s) == io'.op \in {"unprotect", "reprotect"} /\ io'.slot = s

\* C10: independence.  A call of env_unprotect or env_reprotect on one
\* Protector leaves the archived state (the whole object) of a Protector
\* probed from another valid device path unchanged, and that device's control
\* file too.
C10_Independence ==
    [][\A s \in Slots : \A t \in Slots \ {s} :
          (/\ CallOn(s)
           /\ ~IsNull(obj[s]) /\ ~IsNull(obj[t])
           /\ IsExactPattern(devname[s]) /\ IsExactPattern(devname[t])
           /\ devname[s] # devname[t])
             => /\ obj'[t] = obj[t]
                /\ fs'[ControlFile(devname[t])] = fs[ControlFile(devname[t])]]_vars

\* interleaved round trips: slot 1 has restored '1' on its device while slot
\* 2 still holds its archived '1' and its device is still unprotected
C10_Witness ==
    /\ io.op = "reprotect" /\ io.slot = 1 /\ io.wr = c_prot_char
    /\ ~IsNull(obj[2])
    /\ CtlByte(1) = c_prot_char
    /\ obj[2].current_prot = c_prot_char
    /\ CtlByte(2) = c_unprot_char

(***************************************************************************)
(* Further properties of the probe, checked under SpecProbe.               *)
(***************************************************************************)
FileCalls == {"open", "read", "write", "close"}

\* C11: probing does not mutate the device.  Whatever the path and the
\* outcome, a probe leaves every control file as it is and makes no open,
\* read, write or close: at most one access(2).
C11_ProbeDoesNotMutate ==
    [][io'.op = "probe" =>
          /\ fs' = fs
          /\ \A c \in FileCalls : Count(io'.trace, c) = 0
          /\ Count(io'.trace, "access") <= 1]_vars

\* a successful probe of a protected device: the access check was made and
\* the control byte is still '1'
C11_Witness ==
    /\ AfterProbe /\ io.ret = 1
    /\ Count(io.trace, "access") = 1
    /\ CtlByte(io.slot) = c_prot_char


\* TRUE iff in trace every call named b comes after a call named a
Precedes(trace, a, b) ==
    \A i \in 1..Len(trace) :
        trace[i] = b => \E j \in 1..(i - 1) : trace[j] = a

\* C12: every call returns under every combination of open, read, write and
\* close failures, without retrying: each of the three operations can be
\* taken with every outcome of its system calls, a call makes at most one
\* open, one read, one write and one close, the reprotect operation never
\* reads, and the unprotect operation never writes before it has read.
C12_BoundedIo ==
    /\ \A s \in Slots :
          /\ \A allocOK \in BOOLEAN, g \in Garbage :
                ENABLED env_protect_probe(s, allocOK, g)
          /\ ~IsNull(obj[s]) =>
                /\ \A openOK \in BOOLEAN, n \in ReadResults,
                      writeOK \in BOOLEAN, closeOK \in BOOLEAN :
                      ENABLED env_unprotect(s, openOK, n, writeOK, closeOK)
                /\ \A openOK \in BOOLEAN, writeOK \in BOOLEAN, closeOK \in BOOLEAN :
                      ENABLED env_reprotect(s, openOK, writeOK, closeOK)
    /\ io.op \in {"probe", "unprotect", "reprotect"} =>
          \A c \in FileCalls : Count(io.trace, c) <= 1
    /\ io.op = "reprotect" => Count(io.trace, "read") = 0
    /\ io.op = "unprotect" => Precedes(io.trace, "read", "write")
    /\ io.op = "probe" => Len(io.trace) <= 3

C12_Witness ==
    /\ AfterUnprotect /\ io.fail
    /\ io.trace = <<"open", "read", "write", "close">>
    /\ CtlByte(io.slot) = c_prot_char

\* The values the archived state may take: unknown, '0' or '1'
ArchivedValues == {0} \cup Sentinels

\* C13: at the return of every operation the archived state of every
\* Protector is unknown (0), '0' or '1', so every byte the reprotect operation
\* writes is '0' or '1'.
C13_ArchivedDomain ==
    /\ \A s \in Slots : ~IsNull(obj[s]) => obj[s].current_prot \in ArchivedValues
    /\ (AfterReprotect /\ io.wr # NoByte) => io.wr \in Sentinels

C13_Witness ==
    /\ AfterUnprotect /\ io.rd \notin Sentinels /\ io.rd # NoByte
    /\ obj[io.slot].current_prot = 0

\* The fields of a Protector that a successful probe fixes
Fixed(o) == <<o.addr, o.sysfs_path, o.unprotect, o.reprotect>>

\* C14: frame.  Once a probe has succeeded, the control path and the two
\* operations of the Protector never change; an unprotect call changes
\* nothing of a Protector but the archived byte of the one it is called on, a
\* reprotect call changes nothing of any Protector, and a probe that does not
\* succeed changes no Protector.
C14_Frame ==
    [][/\ io'.op # "probe" =>
             \A s \in Slots : s \in DOMAIN obj' /\ Fixed(obj'[s]) = Fixed(obj[s])
       /\ io'.op = "unprotect" =>
             \A s \in Slots \ {io'.slot} : obj'[s] = obj[s]
       /\ io'.op = "reprotect" => obj' = obj
       /\ (io'.op = "probe" /\ io'.ret # 1) => obj' = obj]_vars

C14_Witness ==
    /\ io.op = "reprotect" /\ ~io.fail /\ io.wr = c_prot_char
    /\ obj[io.slot].current_prot = c_prot_char
    /\ obj[io.slot].sysfs_path = ControlFile(devname[io.slot])

\* C15: control path construction.  For every device path the probe accepts,
\* the path stored in the Protector is the full concatenation of
\* "/sys/class/block/", the device path without "/dev/", and "/force_ro",
\* whatever the length of the device path.
C15_FullControlPath ==
    (AfterProbe /\ io.ret = 1) =>
        obj[io.slot].sysfs_path = ControlFile(devname[io.slot])

\* C17: bounds of the matcher.  For every NUL-terminated device path, of
\* every length, the probe reads no character at an index past the
\* terminating NUL of the path.
C17_MatcherInBounds == AfterProbe => ~io.oob

\* C18: no leaked resources.  A call of unprotect or reprotect that opened a
\* file descriptor closes it exactly once, as its last system call, and a call
\* that opened none closes none; a probe that returns 0 or -ENOMEM frees the
\* object it allocated, if it allocated one, and leaves the caller's pointer
\* as it was; a probe that returns 1 frees nothing.
C18_NoLeak ==
    [][/\ io'.op \in {"unprotect", "reprotect"} =>
             /\ io'.opened => Count(io'.trace, "open") = 1
             /\ Count(io'.trace, "close") = (IF io'.opened THEN 1 ELSE 0)
             /\ io'.opened => io'.trace[Len(io'.trace)] = "close"
       /\ (io'.op = "probe" /\ io'.ret \in {0, 0 - ENOMEM}) =>
             /\ obj' = obj
             /\ Count(io'.trace, "free") =
                   (IF io'.mem THEN Count(io'.trace, "calloc") ELSE 0)
       /\ (io'.op = "probe" /\ io'.ret = 1) => Count(io'.trace, "free") = 0]_vars

C18_Witness ==
    /\ AfterUnprotect /\ io.opened
    /\ io.trace = <<"open", "read", "close">>
    /\ obj[io.slot].current_prot = 0

\* C19: the probe confirms that unprotect can operate.  On a Protector the
\* probe returned, with the control file untouched since the probe and
\* holding '1', an env_unprotect call in which no system call fails for a
\* reason of its own opens the control file and leaves the control byte '0'.
C19_ProbeConfirmsUnprotect ==
    [][\A s \in Observed :
          (/\ ~IsNull(obj[s])
           /\ hist[s].u = "never" /\ hist[s].ext = "no"
           /\ CtlByte(s) = c_prot_char
           /\ env_unprotect(s, TRUE, 1, TRUE, TRUE))
          => (io'.opened /\ fs'[obj[s].sysfs_path].byte = c_unprot_char)]_vars

\* TRUE iff the most recent calls on slot s were n >= 1 consecutive
\* env_unprotect calls and then env_reprotect, none with a failed system
\* call, and the file was not changed from outside on the way
AfterRunAndReprotect(s) ==
    /\ AfterReprotect /\ io.slot = s /\ ~io.fail
    /\ hist[s].run >= 1

\* C16 as stated: n >= 1 consecutive env_unprotect calls followed by one
\* env_reprotect, without I/O failure or external change, leave the control
\* byte equal to its value before the first env_unprotect.
C16_RepeatedUnprotectRestores ==
    \A s \in Observed :
        AfterRunAndReprotect(s) => CtlByte(s) = hist[s].first

\* C16 amended: after n consecutive env_unprotect calls and one
\* env_reprotect, without I/O failure or external change, the control byte
\* equals its value before the last env_unprotect: the value before the first
\* one if n = 1 or if that value is no sentinel, and '0' if n >= 2 and that
\* value is a sentinel.
C16_RestoresLastArchived ==
    \A s \in Observed :
        AfterRunAndReprotect(s) =>
            CtlByte(s) = (IF hist[s].run = 1 \/ hist[s].first \notin Sentinels
                          THEN hist[s].first ELSE c_unprot_char)

C16_Witness ==
    /\ AfterRunAndReprotect(io.slot)
    /\ hist[io.slot].run >= 2 /\ hist[io.slot].first = c_prot_char
    /\ CtlByte(io.slot) = c_unprot_char
    /\ io.wr = c_unprot_char
=============================================================================
